---- MODULE Spec2Model ----
(***************************************************************************)
(* Model of src/coinbase/transfer.ts (Transfer: status mapping, broadcast,  *)
(* reload, wait) and src/coinbase/staking_balance.ts (StakingBalance.list). *)
(***************************************************************************)
EXTENDS Integers, Sequences, FiniteSets, TLC

VARIABLES
    model,          \* Transfer.model: the snapshot held by the Transfer (this.model)
    pc,             \* position of the running Transfer operation
    outcome,        \* how the last Transfer operation ended
    returned,       \* what the last Transfer operation returned
    calls,          \* network calls issued by the running operation, in order
    entryModel,     \* this.model when the running operation was entered
    received,       \* data of the responses the running operation received, in order
    op,             \* the Transfer operation running or last run
    raised,         \* the error the last failed network call rejected with
    ops,            \* number of Transfer operations started so far
    statusOut,      \* value (or error) of the last getStatus() evaluation
    now,            \* Date.now() in milliseconds, counted from the entry of the operation
    startTime,      \* wait(): const startTime
    timeoutSeconds, \* wait(): options.timeoutSeconds
    intervalSeconds,\* wait(): options.intervalSeconds
    observed,       \* wait(): the getStatus() results seen, one per iteration
    sleeps,         \* wait(): number of completed delay() calls
    accOut,         \* what the accessors gave when last read on this.model
    lpc,            \* StakingBalance.list: position
    queue,          \* StakingBalance.list: const queue
    stakingBalances,\* StakingBalance.list: const stakingBalances
    page,           \* StakingBalance.list: const page (the dequeued cursor)
    requests,       \* fetchStakingBalances calls issued: <<limit, page argument>>
    responses,      \* fetchStakingBalances responses received, in order
    listOut,        \* how StakingBalance.list ended, and what it returned
    lraised,        \* StakingBalance.list: the call that rejected, and its error
    opc,            \* position of a second caller's reload() on the same Transfer
    ocount,         \* number of reload() calls the second caller has started
    intact          \* this.model was last assigned, in whole, the data of a completed
                    \* getTransfer call, or is still the construction record

tvars == <<model, pc, outcome, returned, calls, entryModel, received, op, raised,
           ops, statusOut, now, startTime, timeoutSeconds, intervalSeconds, observed,
           sleeps, accOut>>
lvars == <<lpc, queue, stakingBalances, page, requests, responses, listOut, lraised>>
cvars == <<opc, ocount, intact>>

vars == <<tvars, lvars, cvars>>

(***************************************************************************)
(* Values                                                                  *)
(***************************************************************************)
\* JavaScript's undefined.
Undefined == "undefined"

\* JavaScript's undefined where an object is expected (a model, a sub-record,
\* a delegate).
UndefinedRec == [undefined |-> TRUE]

\* The error a property access on undefined raises.
TypeError == "TypeError"

\* Milliseconds per second (timeoutSeconds * 1000).
MsPerSecond == 1000

\* Page size of a fetchStakingBalances request.
PageLimit == 100

\* Bounds of the model.
MaxOps == 2
MaxReloads == 3
MaxLatency == 2
MaxTimeout == 2
MaxInterval == 1
MaxRequests == 3
MaxOtherReloads == 1

\* types.ts: TransactionStatus (raw status vocabulary of an OnchainTransaction).
TransactionStatus ==
    [PENDING |-> "pending", BROADCAST |-> "broadcast",
     COMPLETE |-> "complete", FAILED |-> "failed"]

\* types.ts: SponsoredSendStatus (raw status vocabulary of a SponsoredSend).
SponsoredSendStatus ==
    [PENDING |-> "pending", SIGNED |-> "signed", SUBMITTED |-> "submitted",
     COMPLETE |-> "complete", FAILED |-> "failed"]

\* types.ts: TransferStatus (the unified status).
TransferStatus ==
    [PENDING |-> "pending", BROADCAST |-> "broadcast",
     COMPLETE |-> "complete", FAILED |-> "failed"]

Range(f) == {f[x] : x \in DOMAIN f}

\* Status strings a sub-record can carry on the wire.
WireStatuses ==
    {"pending", "signed", "broadcast", "submitted", "complete", "failed",
     "unspecified", Undefined}

\* An embedded sub-record (TransferModel.transaction / .sponsored_send).
SubRecord(statuses, sigs, hashes) ==
    [status : statuses, signed_payload : sigs, transaction_hash : hashes]

\* A TransferModel.
TransferModel(tids, wids, txs, sss) ==
    [transfer_id : tids, wallet_id : wids, address_id : {"a1"},
     transaction : txs, sponsored_send : sss]

(***************************************************************************)
(* Delegates (transaction.ts, sponsored_send.ts)                           *)
(***************************************************************************)
\* Transaction.getStatus(): the raw status, a TransactionStatus or undefined.
Transaction_getStatus(tx) ==
    IF tx.status \in Range(TransactionStatus) THEN tx.status ELSE Undefined

\* SponsoredSend.getStatus(): the raw status, a SponsoredSendStatus or undefined.
SponsoredSend_getStatus(ss) ==
    IF ss.status \in Range(SponsoredSendStatus) THEN ss.status ELSE Undefined

\* isSigned() of a delegate d = [kind, rec]: true once a signed payload is present.
isSigned(d) == d.rec.signed_payload # Undefined

\* getSignature() of a delegate: the signed payload, or undefined.
getSignature(d) == d.rec.signed_payload

\* getTransactionHash() of a delegate.
Delegate_getTransactionHash(d) == d.rec.transaction_hash

(***************************************************************************)
(* Transfer: pure accessors                                                *)
(***************************************************************************)
\* Transfer.getTransaction(): "onchain" delegate over model.transaction.
getTransaction(m) ==
    IF m.transaction = UndefinedRec THEN UndefinedRec
    ELSE [kind |-> "onchain", rec |-> m.transaction]

\* Transfer.getSponsoredSend(): "sponsored" delegate over model.sponsored_send.
getSponsoredSend(m) ==
    IF m.sponsored_send = UndefinedRec THEN UndefinedRec
    ELSE [kind |-> "sponsored", rec |-> m.sponsored_send]

\* A delegate chooser that looks at the sponsored send first.
getSendTransactionDelegateSponsoredFirst(m) ==
    IF getSponsoredSend(m) = UndefinedRec THEN getTransaction(m) ELSE getSponsoredSend(m)

\* Transfer.getSendTransactionDelegate().
getSendTransactionDelegate(m) ==
    IF getTransaction(m) = UndefinedRec THEN getSponsoredSend(m) ELSE getTransaction(m)

\* delegate.getStatus(), dispatched on the delegate's class.
Delegate_getStatus(d) ==
    IF d.kind = "onchain" THEN Transaction_getStatus(d.rec)
    ELSE SponsoredSend_getStatus(d.rec)

\* A mapping that takes a signed SponsoredSend for an already broadcast one.
getStatusSignedAsBroadcast(m) ==
    IF m = UndefinedRec THEN TypeError
    ELSE IF getSendTransactionDelegate(m) = UndefinedRec THEN TypeError
    ELSE LET raw == Delegate_getStatus(getSendTransactionDelegate(m)) IN
         CASE raw = TransactionStatus.PENDING -> TransferStatus.PENDING
           [] raw = SponsoredSendStatus.SIGNED -> TransferStatus.BROADCAST
           [] raw = TransactionStatus.BROADCAST -> TransferStatus.BROADCAST
           [] raw = SponsoredSendStatus.SUBMITTED -> TransferStatus.BROADCAST
           [] raw = TransactionStatus.COMPLETE -> TransferStatus.COMPLETE
           [] raw = TransactionStatus.FAILED -> TransferStatus.FAILED
           [] OTHER -> Undefined

\* Transfer.getStatus(): the switch over the delegate's raw status. The
\* non-null assertion on the delegate makes an absent delegate (or an
\* undefined model) a TypeError.
getStatus(m) ==
    IF m = UndefinedRec THEN TypeError
    ELSE IF getSendTransactionDelegate(m) = UndefinedRec THEN TypeError
    ELSE LET raw == Delegate_getStatus(getSendTransactionDelegate(m)) IN
         CASE raw = TransactionStatus.PENDING -> TransferStatus.PENDING
           [] raw = SponsoredSendStatus.PENDING -> TransferStatus.PENDING
           [] raw = SponsoredSendStatus.SIGNED -> TransferStatus.PENDING
           [] raw = TransactionStatus.BROADCAST -> TransferStatus.BROADCAST
           [] raw = SponsoredSendStatus.SUBMITTED -> TransferStatus.BROADCAST
           [] raw = TransactionStatus.COMPLETE -> TransferStatus.COMPLETE
           [] raw = SponsoredSendStatus.COMPLETE -> TransferStatus.COMPLETE
           [] raw = TransactionStatus.FAILED -> TransferStatus.FAILED
           [] raw = SponsoredSendStatus.FAILED -> TransferStatus.FAILED
           [] OTHER -> Undefined

\* getTransactionLink() of a delegate: the explorer link of its hash, absent
\* until a hash exists.
Delegate_getTransactionLink(d) ==
    IF d.rec.transaction_hash = Undefined THEN Undefined ELSE "explorer/tx/0xhash"

\* Transfer.getTransactionHash(): optional chaining over the delegate.
getTransactionHash(m) ==
    IF m = UndefinedRec THEN TypeError
    ELSE IF getSendTransactionDelegate(m) = UndefinedRec THEN Undefined
    ELSE Delegate_getTransactionHash(getSendTransactionDelegate(m))

\* Transfer.getTransactionLink(): optional chaining over the delegate.
getTransactionLink(m) ==
    IF m = UndefinedRec THEN TypeError
    ELSE IF getSendTransactionDelegate(m) = UndefinedRec THEN Undefined
    ELSE Delegate_getTransactionLink(getSendTransactionDelegate(m))

\* The accessors have not been read since the running operation was entered.
NotRead ==
    [called |-> FALSE, delegate |-> UndefinedRec, status |-> "none",
     hash |-> "none", link |-> "none"]

\* What a read of an undefined this.model throws, for an object-typed result.
TypeErrorRec == [error |-> TypeError]

(***************************************************************************)
(* Transfer: the records the remote service holds and returns              *)
(***************************************************************************)
Sub(status, sig, hash) ==
    [status |-> status, signed_payload |-> sig, transaction_hash |-> hash]

Model(tid, tx, ss) ==
    [transfer_id |-> tid, wallet_id |-> "w1", address_id |-> "a1",
     transaction |-> tx, sponsored_send |-> ss]

\* The (transaction, sponsored_send) pairs of the records used below.
DelegatePairs ==
    { <<Sub("pending", Undefined, Undefined), UndefinedRec>>,
      <<Sub("pending", "0xsig", Undefined), UndefinedRec>>,
      <<Sub("complete", "0xsig", "0xhash"), UndefinedRec>>,
      <<UndefinedRec, Sub("signed", "0xsig", Undefined)>>,
      <<UndefinedRec, Sub("failed", "0xsig", "0xhash")>>,
      <<UndefinedRec, Sub("unspecified", Undefined, Undefined)>>,
      <<Sub("broadcast", "0xsig", "0xhash"), Sub("complete", "0xsig", "0xhash")>>,
      <<UndefinedRec, UndefinedRec>> }

\* Records the remote service may return for a transfer.
ServerModels ==
    { Model("t1", p[1], p[2]) : p \in DelegatePairs }
    \cup { Model("t2", Sub("pending", "0xsig", Undefined), UndefinedRec) }

\* response.data / result?.data of a resolved call: a record, or undefined.
ResponseData == ServerModels \cup {UndefinedRec}

\* Errors a network call may reject with.
TransportErrors == {"APIError", "NetworkError"}

\* Every TransferModel over the wire statuses, for the accessors.
AllModels ==
    LET subs == SubRecord(WireStatuses, {Undefined, "0xsig"}, {Undefined})
                \cup {UndefinedRec}
    IN  TransferModel({"t1"}, {"w1"}, subs, subs)

\* Outcomes of an operation.
Returned == "returned"
UnsignedError == "Error: Cannot broadcast unsigned Transfer"
InternalError == "InternalError: Transfer model cannot be empty"
TimeoutError == "TimeoutError: Transfer timed out"

(***************************************************************************)
(* Transfer: operations                                                    *)
(***************************************************************************)
\* What an operation starts from: no call, no result, this.model as it is.
Entered(name) ==
    /\ pc \in {"idle", "done"}
    /\ op' = name
    /\ now' = 0
    /\ received' = <<>>
    /\ ops < MaxOps
    /\ ops' = ops + 1
    /\ entryModel' = model
    /\ observed' = <<>>
    /\ sleeps' = 0
    /\ raised' = "none"
    /\ accOut' = NotRead

\* getWalletId(), getFromAddressId(), getId(): the key of both network calls.
Key(m) ==
    [wallet_id |-> m.wallet_id, address_id |-> m.address_id,
     transfer_id |-> m.transfer_id]

GetTransferCall(m) ==
    [api |-> "getTransfer", key |-> Key(m), signed_payload |-> Undefined]

BroadcastTransferCall(m) ==
    [api |-> "broadcastTransfer", key |-> Key(m),
     signed_payload |-> getSignature(getSendTransactionDelegate(m))]

\* A guard that only asks for a delegate, signed or not.
BroadcastGuardAnyDelegate(m) == getSendTransactionDelegate(m) = UndefinedRec

\* broadcast(): !this.getSendTransactionDelegate()?.isSigned()
BroadcastRefused(m) ==
    \/ getSendTransactionDelegate(m) = UndefinedRec
    \/ ~isSigned(getSendTransactionDelegate(m))

\* broadcast(), up to its await: the signedness test and the call.
Broadcast ==
    /\ Entered("broadcast")
    /\ IF model = UndefinedRec
       THEN /\ pc' = "done" /\ outcome' = TypeError /\ calls' = <<>>
       ELSE IF BroadcastRefused(model)
       THEN /\ pc' = "done" /\ outcome' = UnsignedError /\ calls' = <<>>
       ELSE /\ pc' = "broadcastTransfer" /\ outcome' = "none"
            /\ calls' = <<BroadcastTransferCall(model)>>
    /\ returned' = UndefinedRec
    /\ UNCHANGED <<model, statusOut, startTime, timeoutSeconds,
                   intervalSeconds>>

\* broadcast(): the call resolved; Transfer.fromModel(response.data) is returned.
BroadcastResolve ==
    /\ pc = "broadcastTransfer"
    /\ \E data \in ResponseData :
         /\ received' = Append(received, data)
         /\ IF data = UndefinedRec
            THEN outcome' = InternalError /\ returned' = UndefinedRec
            ELSE outcome' = Returned /\ returned' = [self |-> FALSE, model |-> data]
    /\ pc' = "done"
    /\ UNCHANGED <<model, calls, entryModel, op, raised, ops, statusOut, accOut, now, startTime,
                   timeoutSeconds, intervalSeconds, observed, sleeps>>

\* A broadcast that calls the service once more when the call fails.
BroadcastRejectRetry ==
    /\ pc = "broadcastTransfer"
    /\ \E e \in TransportErrors :
         /\ raised' = e
         /\ IF Len(calls) < 2
            THEN /\ calls' = Append(calls, BroadcastTransferCall(model))
                 /\ pc' = "broadcastTransfer" /\ outcome' = "none"
            ELSE /\ calls' = calls /\ pc' = "done" /\ outcome' = e
    /\ UNCHANGED <<model, returned, entryModel, received, op, ops, statusOut, accOut, now,
                   startTime, timeoutSeconds, intervalSeconds, observed, sleeps>>

\* broadcast(): the call rejected; the error leaves broadcast() as it is.
BroadcastReject ==
    /\ pc = "broadcastTransfer"
    /\ \E e \in TransportErrors : raised' = e /\ outcome' = e
    /\ pc' = "done"
    /\ UNCHANGED <<model, returned, calls, entryModel, received, op, ops, statusOut, accOut, now,
                   startTime, timeoutSeconds, intervalSeconds, observed, sleeps>>

\* A reload that keeps the identifier of the snapshot it replaces.
ReloadedKeepingId(prev, data) ==
    IF data = UndefinedRec \/ prev = UndefinedRec THEN data
    ELSE [data EXCEPT !.transfer_id = prev.transfer_id]

\* reload(): this.model = result?.data
Reloaded(prev, data) == data

\* reload(), up to its await: the getTransfer call keyed by the snapshot's ids.
Reload ==
    /\ Entered("reload")
    /\ IF model = UndefinedRec
       THEN /\ pc' = "done" /\ outcome' = TypeError /\ calls' = <<>>
       ELSE /\ pc' = "getTransfer" /\ outcome' = "none"
            /\ calls' = <<GetTransferCall(model)>>
    /\ returned' = UndefinedRec
    /\ UNCHANGED <<model, statusOut, startTime, timeoutSeconds,
                   intervalSeconds>>

\* reload(): the call resolved; the snapshot is assigned.
ReloadResolve ==
    /\ pc = "getTransfer"
    /\ \E data \in ResponseData :
         /\ received' = Append(received, data)
         /\ model' = Reloaded(model, data)
    /\ pc' = "done"
    /\ outcome' = Returned
    /\ UNCHANGED <<returned, calls, entryModel, op, raised, ops, statusOut, accOut, now, startTime,
                   timeoutSeconds, intervalSeconds, observed, sleeps>>

\* reload(): the call rejected.
ReloadReject ==
    /\ pc = "getTransfer"
    /\ \E e \in TransportErrors : raised' = e /\ outcome' = e
    /\ pc' = "done"
    /\ UNCHANGED <<model, returned, calls, entryModel, received, op, ops, statusOut, accOut, now,
                   startTime, timeoutSeconds, intervalSeconds, observed, sleeps>>

(***************************************************************************)
(* Transfer.wait                                                           *)
(***************************************************************************)
\* A terminal test that forgets FAILED.
IsTerminalOnlyComplete(status) == status = TransferStatus.COMPLETE

\* A terminal test that also stops on an unmapped status.
IsTerminalOrUnknown(status) ==
    status \in {TransferStatus.COMPLETE, TransferStatus.FAILED, Undefined}

\* wait(): status === TransferStatus.COMPLETE || status === TransferStatus.FAILED
IsTerminal(status) ==
    status = TransferStatus.COMPLETE \/ status = TransferStatus.FAILED

\* A loop test that still passes at the very instant of the timeout.
WithinTimeoutInclusive(t, start, timeout) == t - start <= timeout * MsPerSecond

\* wait(): Date.now() - startTime < timeoutSeconds * 1000
WithinTimeout(t, start, timeout) == t - start < timeout * MsPerSecond

\* delay(intervalSeconds): the milliseconds the timer runs.
DelayMs(interval) == interval * MsPerSecond

\* Time a getTransfer call may take.
Latencies == {k * MsPerSecond : k \in 0..MaxLatency}

\* wait(): the loop test at time t and, when it passes, reload() up to its
\* await; cs are the calls made so far.
WaitLoopHead(t, start, timeout, cs) ==
    IF ~WithinTimeout(t, start, timeout)
    THEN /\ pc' = "done" /\ outcome' = TimeoutError /\ calls' = cs
    ELSE IF model = UndefinedRec
    THEN /\ pc' = "done" /\ outcome' = TypeError /\ calls' = cs
    ELSE /\ Len(cs) < MaxReloads
         /\ pc' = "wait_getTransfer" /\ outcome' = "none"
         /\ calls' = Append(cs, GetTransferCall(model))

\* wait(): entry, the start time and the first loop test.
Wait ==
    /\ Entered("wait")
    /\ \E t \in 0..MaxTimeout, i \in 0..MaxInterval :
         /\ timeoutSeconds' = t
         /\ intervalSeconds' = i
         /\ startTime' = now'
         /\ WaitLoopHead(now', now', t, <<>>)
    /\ returned' = UndefinedRec
    /\ UNCHANGED <<model, statusOut>>

\* wait(): the reload resolved; the snapshot is assigned, the status is read,
\* and wait() returns, fails or starts its delay.
WaitReloadResolve ==
    /\ pc = "wait_getTransfer"
    /\ \E data \in ResponseData, lat \in Latencies :
         /\ now' = now + lat
         /\ received' = Append(received, data)
         /\ model' = Reloaded(model, data)
         /\ statusOut' = getStatus(model')
         /\ observed' = Append(observed, statusOut')
         /\ IF statusOut' = TypeError
            THEN pc' = "done" /\ outcome' = TypeError /\ returned' = UndefinedRec
            ELSE IF IsTerminal(statusOut')
            THEN /\ pc' = "done" /\ outcome' = Returned
                 /\ returned' = [self |-> TRUE, model |-> model']
            ELSE pc' = "wait_delay" /\ outcome' = "none" /\ returned' = UndefinedRec
    /\ UNCHANGED <<calls, entryModel, op, raised, ops, startTime, timeoutSeconds,
                   intervalSeconds, sleeps, accOut>>

\* A wait() that swallows a failed reload and goes on to its delay.
WaitReloadRejectRetry ==
    /\ pc = "wait_getTransfer"
    /\ \E e \in TransportErrors, lat \in Latencies :
         /\ now' = now + lat
         /\ raised' = e
    /\ pc' = "wait_delay"
    /\ UNCHANGED <<model, outcome, returned, calls, entryModel, received, op, ops,
                   statusOut, accOut, startTime, timeoutSeconds, intervalSeconds,
                   observed, sleeps>>

\* wait(): the reload rejected; the error leaves wait().
WaitReloadReject ==
    /\ pc = "wait_getTransfer"
    /\ \E e \in TransportErrors, lat \in Latencies :
         /\ now' = now + lat
         /\ raised' = e
         /\ outcome' = e
    /\ pc' = "done"
    /\ UNCHANGED <<model, returned, calls, entryModel, received, op, ops, statusOut, accOut,
                   startTime, timeoutSeconds, intervalSeconds, observed, sleeps>>

\* wait(): the delay ended; the loop test is made again.
WaitDelayDone ==
    /\ pc = "wait_delay"
    /\ now' = now + DelayMs(intervalSeconds)
    /\ sleeps' = sleeps + 1
    /\ WaitLoopHead(now', startTime, timeoutSeconds, calls)
    /\ UNCHANGED <<model, returned, entryModel, received, op, raised, ops, statusOut, accOut,
                   startTime, timeoutSeconds, intervalSeconds, observed>>

(***************************************************************************)
(* Specification of the Transfer operations                                *)
(***************************************************************************)
\* StakingBalance.list is not running.
ListIdle ==
    /\ lpc = "idle"
    /\ queue = <<>>
    /\ stakingBalances = <<>>
    /\ page = Undefined
    /\ requests = <<>>
    /\ responses = <<>>
    /\ listOut = [outcome |-> "none", value |-> <<>>]
    /\ lraised = [call |-> "none", error |-> "none"]

\* The second caller has not called yet.
OtherIdle ==
    /\ opc = "idle"
    /\ ocount = 0
    /\ intact = TRUE

\* No Transfer operation has run yet.
TransferIdle ==
    /\ pc = "idle"
    /\ outcome = "none"
    /\ returned = UndefinedRec
    /\ calls = <<>>
    /\ entryModel = UndefinedRec
    /\ received = <<>>
    /\ op = "none"
    /\ raised = "none"
    /\ ops = 0
    /\ statusOut = "none"
    /\ now = 0
    /\ startTime = 0
    /\ timeoutSeconds = 0
    /\ intervalSeconds = 0
    /\ observed = <<>>
    /\ sleeps = 0
    /\ accOut = NotRead

\* Transfer.fromModel(m) of a record the service returned.
Init ==
    /\ model \in ServerModels
    /\ TransferIdle
    /\ ListIdle
    /\ OtherIdle

\* A caller reads getSendTransactionDelegate(), getStatus(),
\* getTransactionHash() and getTransactionLink() while no operation is
\* suspended; each reads this.model and changes nothing.
ReadAccessors ==
    /\ pc \in {"idle", "done"}
    /\ ~accOut.called
    /\ accOut' =
         [called |-> TRUE,
          delegate |-> IF model = UndefinedRec THEN TypeErrorRec
                       ELSE getSendTransactionDelegate(model),
          status |-> getStatus(model),
          hash |-> getTransactionHash(model),
          link |-> getTransactionLink(model)]
    /\ UNCHANGED <<model, pc, outcome, returned, calls, entryModel, received, op, raised,
                   ops, statusOut, now, startTime, timeoutSeconds, intervalSeconds,
                   observed, sleeps>>

Next ==
    \/ (ReadAccessors /\ UNCHANGED <<lvars, cvars>>)
    \/ (Broadcast /\ UNCHANGED <<lvars, cvars>>)
    \/ (BroadcastResolve /\ UNCHANGED <<lvars, cvars>>)
    \/ (BroadcastReject /\ UNCHANGED <<lvars, cvars>>)
    \/ (Reload /\ UNCHANGED <<lvars, cvars>>)
    \/ (ReloadResolve /\ UNCHANGED <<lvars, cvars>>)
    \/ (ReloadReject /\ UNCHANGED <<lvars, cvars>>)
    \/ (Wait /\ UNCHANGED <<lvars, cvars>>)
    \/ (WaitReloadResolve /\ UNCHANGED <<lvars, cvars>>)
    \/ (WaitReloadReject /\ UNCHANGED <<lvars, cvars>>)
    \/ (WaitDelayDone /\ UNCHANGED <<lvars, cvars>>)

Spec == Init /\ [][Next]_vars

(***************************************************************************)
(* Specification of the accessors: getStatus() on any snapshot             *)
(***************************************************************************)
\* A call of getStatus() on the Transfer.
GetStatusCall ==
    /\ pc = "idle"
    /\ statusOut' = getStatus(model)
    /\ pc' = "done"
    /\ op' = "getStatus"
    /\ UNCHANGED <<model, outcome, returned, calls, entryModel, received, raised, ops,
                   now, startTime, timeoutSeconds, intervalSeconds, observed, sleeps,
                   accOut>>

InitStatus ==
    /\ model \in AllModels
    /\ TransferIdle
    /\ ListIdle
    /\ OtherIdle

NextStatus == GetStatusCall /\ UNCHANGED <<lvars, cvars>>

SpecStatus == InitStatus /\ [][NextStatus]_vars

(***************************************************************************)
(* Specification of two callers of one Transfer: the operations above, and *)
(* a second caller whose reload() calls run while they are suspended. A    *)
(* second wait() acts on this.model only through such reload() calls.      *)
(***************************************************************************)
\* The second caller's reload(), up to its await.
OtherReload ==
    /\ opc \in {"idle", "done"}
    /\ ocount < MaxOtherReloads
    /\ ocount' = ocount + 1
    /\ opc' = IF model = UndefinedRec THEN "done" ELSE "getTransfer"
    /\ UNCHANGED <<tvars, intact>>

\* The second caller's getTransfer resolved; this.model = result?.data.
OtherReloadResolve ==
    /\ opc = "getTransfer"
    /\ \E data \in ResponseData :
         /\ model' = Reloaded(model, data)
         /\ intact' = IF model' = model THEN intact ELSE model' = data
    /\ opc' = "done"
    /\ UNCHANGED <<pc, outcome, returned, calls, entryModel, received, op, raised, ops,
                   statusOut, now, startTime, timeoutSeconds, intervalSeconds,
                   observed, sleeps, accOut, ocount>>

\* The second caller's getTransfer rejected; this.model is not assigned.
OtherReloadReject ==
    /\ opc = "getTransfer"
    /\ opc' = "done"
    /\ UNCHANGED <<tvars, ocount, intact>>

\* A step of the first caller that changes this.model leaves it intact only
\* if it is the step in which a getTransfer call completes and this.model
\* becomes the data of that call.
Tracked ==
    /\ intact' = IF model' = model THEN intact
                 ELSE /\ pc \in {"getTransfer", "wait_getTransfer"}
                      /\ Len(received') = Len(received) + 1
                      /\ model' = received'[Len(received')]
    /\ UNCHANGED <<lvars, opc, ocount>>

\* Transfer.fromModel(m) of a record the service returned.
InitBoth ==
    /\ model \in ServerModels
    /\ TransferIdle
    /\ ListIdle
    /\ OtherIdle

NextBoth ==
    \/ (Broadcast /\ Tracked)
    \/ (BroadcastResolve /\ Tracked)
    \/ (BroadcastReject /\ Tracked)
    \/ (Reload /\ Tracked)
    \/ (ReloadResolve /\ Tracked)
    \/ (ReloadReject /\ Tracked)
    \/ (Wait /\ Tracked)
    \/ (WaitReloadResolve /\ Tracked)
    \/ (WaitReloadReject /\ Tracked)
    \/ (WaitDelayDone /\ Tracked)
    \/ (OtherReload /\ UNCHANGED lvars)
    \/ (OtherReloadResolve /\ UNCHANGED lvars)
    \/ (OtherReloadReject /\ UNCHANGED lvars)

SpecBoth == InitBoth /\ [][NextBoth]_vars

(***************************************************************************)
(* Claims about the Transfer                                               *)
(***************************************************************************)
Last(seq) == seq[Len(seq)]

\* The sub-record the Transfer acts through: the transaction when present,
\* otherwise the sponsored send.
ActiveKind(m) ==
    IF m.transaction # UndefinedRec THEN "onchain"
    ELSE IF m.sponsored_send # UndefinedRec THEN "sponsored"
    ELSE "none"

ActiveSub(m) ==
    IF m.transaction # UndefinedRec THEN m.transaction ELSE m.sponsored_send

\* The table of unified statuses, by delegate kind and raw status.
StatusTable ==
    [k \in {"onchain", "sponsored"}, raw \in WireStatuses |->
        CASE k = "onchain" /\ raw = "pending" -> "pending"
          [] k = "sponsored" /\ raw = "pending" -> "pending"
          [] k = "sponsored" /\ raw = "signed" -> "pending"
          [] k = "onchain" /\ raw = "broadcast" -> "broadcast"
          [] k = "sponsored" /\ raw = "submitted" -> "broadcast"
          [] k = "onchain" /\ raw = "complete" -> "complete"
          [] k = "sponsored" /\ raw = "complete" -> "complete"
          [] k = "onchain" /\ raw = "failed" -> "failed"
          [] k = "sponsored" /\ raw = "failed" -> "failed"
          [] OTHER -> Undefined]

\* C1: with a delegate present, getStatus() gives the table's unified status for
\* the delegate's raw status, and undefined (never an error) for every raw
\* status outside the table.
C1_StatusMappingTotal ==
    (op = "getStatus" /\ pc = "done" /\ ActiveKind(model) # "none") =>
        /\ statusOut = StatusTable[ActiveKind(model), ActiveSub(model).status]
        /\ statusOut # TypeError

\* C1, reached: a signed SponsoredSend was mapped to PENDING.
C1_Witness ==
    /\ op = "getStatus" /\ pc = "done"
    /\ ActiveKind(model) = "sponsored"
    /\ ActiveSub(model).status = "signed"
    /\ statusOut = "pending"

\* The snapshot has no delegate, or one that is not signed.
Unsigned(m) ==
    ActiveKind(m) = "none" \/ ActiveSub(m).signed_payload = Undefined

\* C2: broadcast() on a Transfer whose delegate is absent or unsigned has failed
\* with "Cannot broadcast unsigned Transfer" and has issued no network call.
C2_UnsignedBroadcastRefused ==
    (op = "broadcast" /\ entryModel # UndefinedRec /\ Unsigned(entryModel)) =>
        /\ pc = "done"
        /\ outcome = UnsignedError
        /\ calls = <<>>

\* C2, reached: an unsigned pending transaction was refused.
C2_Witness ==
    /\ op = "broadcast" /\ pc = "done"
    /\ entryModel # UndefinedRec
    /\ ActiveKind(entryModel) = "onchain"
    /\ ActiveSub(entryModel).signed_payload = Undefined
    /\ outcome = UnsignedError

\* C3: after a successful broadcast() the snapshot of the Transfer it was called
\* on is the record the service returned, and that Transfer is what is returned.
C3_BroadcastReplacesSnapshot ==
    (op = "broadcast" /\ pc = "done" /\ outcome = Returned) =>
        /\ model = Last(received)
        /\ returned.self
        /\ returned.model = Last(received)

\* C4: during reload() and wait(), once a getTransfer response has arrived the
\* snapshot is exactly the latest response's data, and every getTransfer call
\* is keyed by the ids of the snapshot held when that reload started.
C4_ReloadReplacesSnapshot ==
    (op \in {"reload", "wait"}) =>
        /\ model = IF received = <<>> THEN entryModel ELSE Last(received)
        /\ \A i \in 1..Len(calls) :
             LET held == IF i = 1 THEN entryModel ELSE received[i - 1] IN
             /\ calls[i].api = "getTransfer"
             /\ calls[i].key.wallet_id = held.wallet_id
             /\ calls[i].key.address_id = held.address_id
             /\ calls[i].key.transfer_id = held.transfer_id

\* C4, reached: a reload inside wait() replaced a "t1" snapshot by a "t2" record
\* and the next call was made.
C4_Witness ==
    /\ op = "wait"
    /\ Len(calls) = 2 /\ Len(received) = 1
    /\ entryModel.transfer_id = "t1"
    /\ model.transfer_id = "t2"
    /\ calls[2].key.transfer_id = "t2"

\* C5: when the broadcastTransfer call fails, broadcast() ends with that very
\* error, exactly one call was made, and the snapshot is as it was on entry.
C5_BroadcastFailure ==
    (op = "broadcast" /\ raised # "none") =>
        /\ pc = "done"
        /\ outcome = raised
        /\ Len(calls) = 1
        /\ calls[1].api = "broadcastTransfer"
        /\ model = entryModel

\* C5, reached: a broadcast of a signed Transfer failed in the transport.
C5_Witness ==
    /\ op = "broadcast" /\ pc = "done"
    /\ raised = "NetworkError" /\ outcome = "NetworkError"
    /\ Len(calls) = 1

\* The unified statuses that end the polling.
Terminal == {"complete", "failed"}

\* The unified status of a record that has a delegate, by the table.
TableStatus(m) == StatusTable[ActiveKind(m), ActiveSub(m).status]

\* The record has a delegate whose raw status the table does not map.
UnknownStatus(m) ==
    /\ m # UndefinedRec
    /\ ActiveKind(m) # "none"
    /\ TableStatus(m) = Undefined

\* C6: wait() stops at the first reload whose status is COMPLETE or FAILED: if
\* that is the k-th reload, k calls and k-1 delays were made, no delay follows,
\* and wait() returns this Transfer holding that status; wait() returns
\* normally only so.
C6_WaitReturnsAtFirstTerminal ==
    (op = "wait") =>
        LET k == Len(observed) IN
        /\ Len(received) = k
        /\ \A i \in 1..k :
             (received[i] # UndefinedRec /\ ActiveKind(received[i]) # "none")
                 => observed[i] = TableStatus(received[i])
        /\ \A i \in 1..(k - 1) : observed[i] \notin Terminal
        /\ (k > 0 /\ observed[k] \in Terminal) =>
             /\ pc = "done"
             /\ outcome = Returned
             /\ Len(calls) = k
             /\ sleeps = k - 1
             /\ returned.self
             /\ returned.model = model
             /\ TableStatus(model) = observed[k]
        /\ (pc = "done" /\ outcome = Returned) => (k > 0 /\ observed[k] \in Terminal)

\* C6, reached: statuses pending, broadcast, complete over three reloads; two
\* delays; wait() returned with COMPLETE.
C6_Witness ==
    /\ op = "wait" /\ pc = "done" /\ outcome = Returned
    /\ observed = <<"pending", "broadcast", "complete">>
    /\ Len(calls) = 3
    /\ sleeps = 2

\* C7: when every reload succeeded and none gave COMPLETE or FAILED, wait() has
\* ended with TimeoutError, no later than the timeout plus one poll interval
\* after its start.
C7_WaitTimesOut ==
    (/\ op = "wait" /\ pc = "done" /\ raised = "none"
     /\ \A i \in 1..Len(observed) : observed[i] \notin Terminal) =>
        /\ outcome = TimeoutError
        /\ now <= startTime + timeoutSeconds * MsPerSecond
                            + intervalSeconds * MsPerSecond

\* C8: after a reload whose record has a delegate with an unmapped raw status,
\* wait() has neither returned nor failed on it: it delays one interval and
\* polls again, and unless a later call fails it ends only with TimeoutError.
C8_UnknownStatusKeepsPolling ==
    (op = "wait" /\ received # <<>> /\ UnknownStatus(Last(received))) =>
        /\ Last(observed) = Undefined
        /\ outcome \notin {Returned, TypeError}
        /\ pc \in {"wait_delay", "wait_getTransfer", "done"}
        /\ (pc = "wait_delay") => (sleeps = Len(received) - 1)
        /\ (pc # "wait_delay") => (sleeps = Len(received))
        /\ (pc = "done" /\ raised = "none") => (outcome = TimeoutError)

\* C8, reached: two reloads gave an unmapped status and wait() timed out.
C8_Witness ==
    /\ op = "wait" /\ pc = "done" /\ outcome = TimeoutError
    /\ Len(received) = 2
    /\ UnknownStatus(received[1]) /\ UnknownStatus(received[2])
    /\ sleeps = 2

(***************************************************************************)
(* StakingBalance.list                                                     *)
(***************************************************************************)
\* response.data.data of a page: the records, in the order the service sent them.
PageDatas == { <<>>, <<"r1">>, <<"r2", "r1">>, <<"r1", "r1">> }

\* response.data.next_page: absent, the empty string, or a cursor.
NextPages == {Undefined, "", "c1", "c2"}

\* response.data of a fetchStakingBalances call.
PageResponses == [data : PageDatas, has_more : BOOLEAN, next_page : NextPages]

\* What Asset.fetch resolves with.
Assets == {"asset"}

\* JavaScript truthiness of a string or undefined.
Truthy(x) == x # Undefined /\ x # ""

\* The dequeued cursor passed on as it is, the empty string included.
PageArgumentRaw(pg) == pg

\* page?.length ? page : undefined
PageArgument(pg) == IF Truthy(pg) THEN pg ELSE Undefined

\* The records of a page put in front of those collected so far.
PushedInFront(sb, data, asset) ==
    [i \in 1..Len(data) |-> [model |-> data[i], asset |-> asset]] \o sb

\* response.data.data.forEach(b => stakingBalances.push(new StakingBalance(b, asset)))
Pushed(sb, data, asset) ==
    sb \o [i \in 1..Len(data) |-> [model |-> data[i], asset |-> asset]]

\* A queue that takes next_page whenever has_more is set, cursor or not.
EnqueuedWhenHasMore(q, resp) ==
    IF resp.has_more THEN Append(q, resp.next_page) ELSE q

\* A queue that takes the next cursor twice.
EnqueuedTwice(q, resp) ==
    IF resp.has_more /\ Truthy(resp.next_page)
    THEN q \o <<resp.next_page, resp.next_page>>
    ELSE q

\* A queue that never takes a cursor: list() stops after its first page.
EnqueuedNever(q, resp) == q

\* if (has_more) { if (next_page) queue.push(next_page) }
Enqueued(q, resp) ==
    IF resp.has_more
    THEN IF Truthy(resp.next_page) THEN Append(q, resp.next_page) ELSE q
    ELSE q

\* The while test on queue q and, when it passes, the shift and the request up
\* to its await; sb is what was collected, rs the requests made so far.
ListLoopHead(q, sb, rs) ==
    IF Len(q) > 0
    THEN /\ Len(rs) < MaxRequests
         /\ page' = Head(q)
         /\ queue' = Tail(q)
         /\ requests' = Append(rs, [limit |-> PageLimit, page |-> PageArgument(Head(q))])
         /\ lpc' = "fetchStakingBalances"
         /\ listOut' = [outcome |-> "none", value |-> <<>>]
    ELSE /\ page' = page
         /\ queue' = q
         /\ requests' = rs
         /\ lpc' = "done"
         /\ listOut' = [outcome |-> Returned, value |-> sb]

\* StakingBalance.list(...): entry, up to the first request's await.
List ==
    /\ lpc = "idle"
    /\ stakingBalances' = <<>>
    /\ responses' = <<>>
    /\ ListLoopHead(<<"">>, <<>>, <<>>)
    /\ UNCHANGED lraised

\* fetchStakingBalances resolved; Asset.fetch is awaited next.
FetchResolve ==
    /\ lpc = "fetchStakingBalances"
    /\ \E resp \in PageResponses : responses' = Append(responses, resp)
    /\ lpc' = "Asset.fetch"
    /\ UNCHANGED <<queue, stakingBalances, page, requests, listOut, lraised>>

\* fetchStakingBalances rejected; the error leaves list().
FetchReject ==
    /\ lpc = "fetchStakingBalances"
    /\ \E e \in TransportErrors :
         /\ lraised' = [call |-> "fetchStakingBalances", error |-> e]
         /\ listOut' = [outcome |-> e, value |-> <<>>]
    /\ lpc' = "done"
    /\ UNCHANGED <<queue, stakingBalances, page, requests, responses>>

\* Asset.fetch resolved: the page's records are pushed, the next cursor is
\* queued, and the loop test is made again.
AssetResolve ==
    /\ lpc = "Asset.fetch"
    /\ \E asset \in Assets :
         /\ stakingBalances' =
                Pushed(stakingBalances, Last(responses).data, asset)
         /\ ListLoopHead(Enqueued(queue, Last(responses)), stakingBalances', requests)
    /\ UNCHANGED <<responses, lraised>>

\* An Asset.fetch failure that is swallowed: list() returns what it has.
AssetRejectReturnsPartial ==
    /\ lpc = "Asset.fetch"
    /\ \E e \in TransportErrors :
         /\ lraised' = [call |-> "Asset.fetch", error |-> e]
         /\ listOut' = [outcome |-> Returned, value |-> stakingBalances]
    /\ lpc' = "done"
    /\ UNCHANGED <<queue, stakingBalances, page, requests, responses>>

\* Asset.fetch rejected; the error leaves list().
AssetReject ==
    /\ lpc = "Asset.fetch"
    /\ \E e \in TransportErrors :
         /\ lraised' = [call |-> "Asset.fetch", error |-> e]
         /\ listOut' = [outcome |-> e, value |-> <<>>]
    /\ lpc' = "done"
    /\ UNCHANGED <<queue, stakingBalances, page, requests, responses>>

\* A Transfer is at rest while list() runs.
InitList ==
    /\ model \in {Model("t1", UndefinedRec, UndefinedRec)}
    /\ TransferIdle
    /\ ListIdle
    /\ OtherIdle

NextList ==
    \/ (List /\ UNCHANGED <<tvars, cvars>>)
    \/ (FetchResolve /\ UNCHANGED <<tvars, cvars>>)
    \/ (FetchReject /\ UNCHANGED <<tvars, cvars>>)
    \/ (AssetResolve /\ UNCHANGED <<tvars, cvars>>)
    \/ (AssetReject /\ UNCHANGED <<tvars, cvars>>)

SpecList == InitList /\ [][NextList]_vars

\* The awaited calls of list() settle and the event loop resumes list().
SpecListFair == SpecList /\ WF_vars(NextList)

(***************************************************************************)
(* Claims about StakingBalance.list                                        *)
(***************************************************************************)
\* The records of the pages rs, page after page.
RECURSIVE Concat(_)
Concat(rs) == IF rs = <<>> THEN <<>> ELSE Head(rs).data \o Concat(Tail(rs))

\* The records list() returned.
ReturnedRecords == [i \in 1..Len(listOut.value) |-> listOut.value[i].model]

\* Page i says more pages remain and names the next one.
Continues(resp) == resp.has_more /\ Truthy(resp.next_page)

\* The responses form a chain whose last page has has_more = false.
ChainEnded ==
    /\ responses # <<>>
    /\ \A i \in 1..(Len(responses) - 1) : Continues(responses[i])
    /\ ~Last(responses).has_more

\* C9: when the pages received form a chain ending in a page with has_more =
\* false, list() returns the records of all pages, page after page, each page
\* in the order received, and has made one request per page.
C9_ListConcatenatesPages ==
    (ChainEnded /\ lpc = "done" /\ listOut.outcome \notin TransportErrors) =>
        /\ listOut.outcome = Returned
        /\ ReturnedRecords = Concat(responses)
        /\ Len(requests) = Len(responses)

\* C9, reached: two pages, <<r2, r1>> then <<r1>>, returned as <<r2, r1, r1>>.
C9_Witness ==
    /\ lpc = "done" /\ listOut.outcome = Returned
    /\ Len(responses) = 2
    /\ responses[1].data = <<"r2", "r1">>
    /\ responses[2].data = <<"r1">>
    /\ ~responses[2].has_more
    /\ ReturnedRecords = <<"r2", "r1", "r1">>

ProtocolViolationError == "ProtocolViolationError"

C11_ListFailureAborts ==
    (lraised.call # "none") =>
        /\ lpc = "done"
        /\ listOut.outcome = lraised.error
        /\ listOut.value = <<>>
        /\ (lraised.call = "fetchStakingBalances")
               => (Len(requests) = Len(responses) + 1)
        /\ (lraised.call = "Asset.fetch") => (Len(requests) = Len(responses))

\* C11, reached: the asset lookup of the second page failed after the records
\* of the first page had been collected.
C11_Witness ==
    /\ lraised.call = "Asset.fetch"
    /\ Len(responses) = 2
    /\ Len(stakingBalances) = 2
    /\ listOut = [outcome |-> "APIError", value |-> <<>>]

\* C12: on a snapshot with neither sub-record, getStatus(), getTransactionHash()
\* and getTransactionLink() each gave undefined without failing, and a
\* broadcast() entered on such a snapshot was refused as unsigned.
C12_NoDelegateAccessorsAbsent ==
    /\ (accOut.called /\ model # UndefinedRec /\ ActiveKind(model) = "none") =>
           /\ accOut.status = Undefined
           /\ accOut.hash = Undefined
           /\ accOut.link = Undefined
    /\ (op = "broadcast" /\ entryModel # UndefinedRec
            /\ ActiveKind(entryModel) = "none") =>
           (pc = "done" /\ outcome = UnsignedError)

\* The delegate the snapshot m determines: the transaction when present (also
\* beside a sponsored send), the sponsored send when alone, none otherwise.
DelegateOf(m) ==
    CASE ActiveKind(m) = "onchain" -> [kind |-> "onchain", rec |-> m.transaction]
      [] ActiveKind(m) = "sponsored" -> [kind |-> "sponsored", rec |-> m.sponsored_send]
      [] OTHER -> UndefinedRec

\* C13: on a non-empty snapshot the accessors gave the delegate that snapshot
\* determines, and the status, hash and link of that delegate; after a reload
\* the snapshot they were read from is the record the reload received.
C13_DelegateIsFunctionOfSnapshot ==
    (accOut.called /\ model # UndefinedRec) =>
        /\ accOut.delegate = DelegateOf(model)
        /\ (ActiveKind(model) # "none") =>
               /\ accOut.status = StatusTable[ActiveKind(model), ActiveSub(model).status]
               /\ accOut.hash = ActiveSub(model).transaction_hash
               /\ (accOut.link = Undefined) = (ActiveSub(model).transaction_hash = Undefined)
        /\ (ActiveKind(model) = "none") => (accOut.hash = Undefined /\ accOut.link = Undefined)
        /\ (op = "reload" /\ received # <<>>) => (model = Last(received))

\* C13, reached: a reload replaced a SponsoredSend-only snapshot by a record
\* with both sub-records, and the accessors then gave the onchain delegate.
C13_Witness ==
    /\ accOut.called
    /\ op = "reload" /\ received # <<>>
    /\ entryModel # UndefinedRec
    /\ ActiveKind(entryModel) = "sponsored"
    /\ model # UndefinedRec
    /\ model.transaction # UndefinedRec /\ model.sponsored_send # UndefinedRec
    /\ accOut.delegate = [kind |-> "onchain", rec |-> model.transaction]
    /\ accOut.status = "broadcast"

\* C14: every page request asks for 100 records; the first carries no cursor
\* (undefined, not the empty string); each later one carries the cursor of the
\* response before it, which had has_more = true and a non-empty cursor.
C14_RequestsFollowCursors ==
    \A i \in 1..Len(requests) :
        /\ requests[i].limit = 100
        /\ (i = 1) => (requests[i].page = Undefined)
        /\ (i > 1) =>
               /\ responses[i - 1].has_more
               /\ responses[i - 1].next_page \notin {Undefined, ""}
               /\ requests[i].page = responses[i - 1].next_page

\* C14, reached: three requests, the second with cursor "c1" and the third
\* with cursor "c2".
C14_Witness ==
    /\ Len(requests) = 3
    /\ requests[1].page = Undefined
    /\ requests[2].page = "c1"
    /\ requests[3].page = "c2"

\* Page requests issued and not yet settled.
Outstanding ==
    Len(requests) - Len(responses)
        - (IF lraised.call = "fetchStakingBalances" THEN 1 ELSE 0)

\* C15: the queue never holds more than one cursor, also right after the push
\* that follows a page; it is empty while a page request is in flight; at most
\* one page request is outstanding, and one exactly while list() awaits it.
C15_OneCursorOneRequest ==
    /\ Len(queue) <= 1
    /\ (lpc = "fetchStakingBalances") => (queue = <<>> /\ Outstanding = 1)
    /\ (lpc # "fetchStakingBalances") => (Outstanding = 0)
    /\ (lpc = "Asset.fetch") => (Len(Enqueued(queue, Last(responses))) <= 1)

\* C15, reached: the second page arrived and its cursor is the one to queue.
C15_Witness ==
    /\ lpc = "Asset.fetch"
    /\ Len(responses) = 2
    /\ Enqueued(queue, Last(responses)) = <<"c2">>

\* list() has returned only at the first page that ends the chain, with one
\* request per page up to it and none after it; while every page answered so
\* far continues the chain, list() has not returned.
C16_Safety ==
    /\ (lpc = "done" /\ listOut.outcome = Returned) =>
           /\ responses # <<>>
           /\ ~Continues(Last(responses))
           /\ \A i \in 1..(Len(responses) - 1) : Continues(responses[i])
    /\ (responses # <<>> /\ ~Continues(Last(responses))) =>
           (Len(requests) = Len(responses) /\ lpc \in {"Asset.fetch", "done"})
    /\ (\A i \in 1..Len(responses) : Continues(responses[i])) =>
           ~(lpc = "done" /\ listOut.outcome = Returned)

\* A page that ends the chain has arrived and its asset lookup is awaited.
C16_FinalPagePending ==
    lpc = "Asset.fetch" /\ ~Continues(Last(responses))

\* C16: C16_Safety always holds, and once the page that ends the chain has
\* arrived list() eventually ends.
C16_ListTerminates ==
    /\ []C16_Safety
    /\ C16_FinalPagePending ~> (lpc = "done")

\* C16, reached: list() returned after three pages, the third ending the chain.
C16_Witness ==
    /\ lpc = "done" /\ listOut.outcome = Returned
    /\ Len(requests) = 3 /\ Len(responses) = 3
    /\ ~Last(responses).has_more

\* C17: once a reload inside wait() has failed, wait() has ended with that very
\* error and not with TimeoutError; the failed call is the last one, no delay
\* followed it, and the snapshot is the record of the last reload that
\* succeeded, or the one wait() was entered with.
C17_WaitReloadFailure ==
    (op = "wait" /\ raised # "none") =>
        /\ pc = "done"
        /\ outcome = raised
        /\ outcome # TimeoutError
        /\ Len(calls) = Len(received) + 1
        /\ sleeps = Len(received)
        /\ model = (IF received = <<>> THEN entryModel ELSE Last(received))

\* C17, reached: the first reload brought a new record, the second failed.
C17_Witness ==
    /\ op = "wait" /\ pc = "done"
    /\ raised = "NetworkError" /\ outcome = "NetworkError"
    /\ Len(received) = 1 /\ Len(calls) = 2 /\ sleeps = 1
    /\ model = received[1] /\ model # entryModel

\* C18: a reload of wait() is in flight only if the timeout had not elapsed
\* when it was issued; with a timeout of zero wait() has ended with
\* TimeoutError without any reload; wait() times out only between iterations;
\* and a terminal status read after a reload is returned whatever time the
\* reload took.
C18_TimeoutTestedAtLoopHead ==
    /\ (pc = "wait_getTransfer") =>
           (now - startTime < timeoutSeconds * MsPerSecond)
    /\ (op = "wait" /\ timeoutSeconds = 0) =>
           /\ pc = "done" /\ outcome = TimeoutError
           /\ calls = <<>> /\ received = <<>>
           /\ model = entryModel
    /\ (op = "wait" /\ outcome = TimeoutError) =>
           /\ Len(calls) = Len(received)
           /\ now - startTime >= timeoutSeconds * MsPerSecond
    /\ (op = "wait" /\ observed # <<>> /\ Last(observed) \in Terminal) =>
           (pc = "done" /\ outcome = Returned)

\* C18, reached: the timeout elapsed during the first reload, which brought a
\* terminal status, and wait() returned.
C18_Witness ==
    /\ op = "wait" /\ pc = "done" /\ outcome = Returned
    /\ Len(received) = 1
    /\ timeoutSeconds > 0
    /\ now - startTime >= timeoutSeconds * MsPerSecond

\* C19: whenever another caller can run, and at every other state, the snapshot
\* is a whole record: the one the Transfer was constructed from or the data of
\* one completed getTransfer call.
C19_SnapshotIsOneWholeRecord ==
    /\ intact
    /\ model # UndefinedRec

\* C20: the Transfer never holds an empty model: this.model is a record after
\* every step of reload(), wait() and broadcast(), a Transfer that an operation
\* returned holds a record, and the construction of a Transfer from an empty
\* broadcast response was rejected with InternalError.
C20_ModelNeverEmpty ==
    /\ model # UndefinedRec
    /\ (returned # UndefinedRec) => (returned.model # UndefinedRec)
    /\ (op = "broadcast" /\ received # <<>> /\ Last(received) = UndefinedRec) =>
           (outcome = InternalError)

====
